---- MODULE Spec2Model ----
(***************************************************************************)
(* A model of the RESP codec of simple-redis (src/resp).                   *)
(*                                                                         *)
(* Bytes are one-character strings and a buffer is a sequence of bytes.    *)
(* Offsets keep the source's 0-based values: the byte at offset i of buf   *)
(* is buf[i + 1].  A Result is a record [k, v]: k is "Ok" or the name of   *)
(* the RespError variant, or "Panic" where the Rust code panics (an index  *)
(* or slice out of range, an integer underflow).                           *)
(*                                                                         *)
(* mod.rs and encode.rs are modelled from their code.  decode.rs (the      *)
(* RespDecode implementations) is not among the sources; its operators     *)
(* follow sections 4.2 and 4.3 of the specification and call the helpers   *)
(* of mod.rs the way mod.rs's own test does.                               *)
(***************************************************************************)
EXTENDS Integers, Sequences, FiniteSets, TLC

VARIABLES
  buf,     \* the caller's buffer (BytesMut)
  call,    \* the last codec call made on buf: [op, prefix]
  ret,     \* what that call returned
  pre,     \* buf as it was when that call was made
  frame,   \* the RespFrame value handed to encode
  wire,    \* bytes produced by encode and not yet delivered to buf
  sent,    \* "no" before encode has run on frame; then "clean", or "garbled"
           \* or "trailed" once the peer has altered or extended the bytes
  hist     \* the (key, value) insertions made into the RespMap, in order

vars == <<buf, call, ret, pre, frame, wire, sent, hist>>

----------------------------------------------------------------------------
(* Bounds of the model *)

\* longest buffer of arbitrary bytes (SpecOracle)
MaxLen == 5
\* most elements of an Array or Set, most entries of a Map (SpecCodec)
MaxElems == 2
\* most insertions into one RespMap (SpecMap)
MaxInserts == 3
\* largest magnitude of a decimal exponent of a Double (SpecDouble)
MaxExp == 10

----------------------------------------------------------------------------
(* Results *)

Ok(v) == [k |-> "Ok", v |-> v]

Err(e) == [k |-> e, v |-> 0]

Panic == [k |-> "Panic", v |-> 0]

NoRet == [k |-> "NoRet", v |-> 0]

\* Option::None of find_crlf
NoMatch == [k |-> "None", v |-> 0]

Idle == [op |-> "idle", prefix |-> <<>>]

----------------------------------------------------------------------------
(* Bytes and slices *)

CRLF == <<"\r", "\n">>

CRLF_LEN == Len(CRLF)

Digits == <<"0", "1", "2", "3", "4", "5", "6", "7", "8", "9">>

IsDigit(c) == \E d \in 1..10 : Digits[d] = c

DigitVal(c) == (CHOOSE d \in 1..10 : Digits[d] = c) - 1

\* &buf[a..b]
Slice(b, from, to) == SubSeq(b, from + 1, to)

\* &buf[a..]
SliceFrom(b, from) == SubSeq(b, from + 1, Len(b))

\* buf.starts_with(p)
StartsWith(b, p) == Len(b) >= Len(p) /\ SubSeq(b, 1, Len(p)) = p

----------------------------------------------------------------------------
(* mod.rs: the line-terminator search and the header parse *)

\* A find_crlf that takes a CR for a line end without looking at the next byte.
find_crlf_cr_only(b, nth) ==
  IF Len(b) = 0 THEN Panic
  ELSE LET hits == {i \in 0..(Len(b) - 1) : b[i + 1] = "\r"}
       IN IF Cardinality(hits) < nth THEN NoMatch
          ELSE Ok(CHOOSE i \in hits : Cardinality({j \in hits : j < i}) = nth - 1)

\* for i in 0..buf.len() - 1: the nth i with buf[i] = CR and buf[i + 1] = LF.
\* buf.len() - 1 underflows on an empty buffer.
find_crlf(b, nth) ==
  IF Len(b) = 0 THEN Panic
  ELSE LET hits == {i \in 0..(Len(b) - 2) : b[i + 1] = "\r" /\ b[i + 2] = "\n"}
       IN IF Cardinality(hits) < nth THEN NoMatch
          ELSE Ok(CHOOSE i \in hits : Cardinality({j \in hits : j < i}) = nth - 1)

\* An extract_simple_frame_data that leaves out the starts_with check.
extract_without_prefix_check(b, prefix) ==
  IF Len(b) < 3 THEN Err("NotComplete")
  ELSE LET f == find_crlf(b, 1)
       IN IF f.k = "None" THEN Err("NotComplete") ELSE f

extract_simple_frame_data(b, prefix) ==
  IF Len(b) < 3 THEN Err("NotComplete")
  ELSE IF ~StartsWith(b, prefix) THEN Err("InvalidFrameType")
  ELSE LET f == find_crlf(b, 1)
       IN IF f.k = "None" THEN Err("NotComplete") ELSE f

RECURSIVE digits_value(_)
\* the value of a non-empty run of decimal digits
digits_value(s) ==
  IF Len(s) = 1 THEN DigitVal(s[1])
  ELSE 10 * digits_value(SubSeq(s, 1, Len(s) - 1)) + DigitVal(s[Len(s)])

AllDigits(s) == Len(s) >= 1 /\ \A i \in 1..Len(s) : IsDigit(s[i])

\* str::parse::<usize>: an optional '+', then one or more digits; a '-' is an
\* invalid digit of an unsigned type.  The From impl of RespError turns the
\* failure into RespError::ParseIntError.
parse_usize(s) ==
  LET d == IF Len(s) >= 1 /\ s[1] = "+" THEN Tail(s) ELSE s
  IN IF AllDigits(d) THEN Ok(digits_value(d)) ELSE Err("ParseIntError")

\* Ok((end, len)) is Ok(<<end, len>>)
parse_length(b, prefix) ==
  LET e == extract_simple_frame_data(b, prefix)
  IN IF e.k # "Ok" THEN e
     ELSE LET n == parse_usize(Slice(b, Len(prefix), e.v))
          IN IF n.k # "Ok" THEN n ELSE Ok(<<e.v, n.v>>)

----------------------------------------------------------------------------
(* The value model (mod.rs).  A RespFrame is <<variant, payload>>.          *)

SimpleString(s) == <<"SimpleString", s>>

SimpleError(s) == <<"Error", s>>

Integer(n) == <<"Integer", n>>

BulkString(s) == <<"BulkString", s>>

RespNullBulkString == <<"NullBulkString", <<>>>>

RespArray(fs) == <<"Array", fs>>

RespNull == <<"Null", <<>>>>

RespNullArray == <<"NullArray", <<>>>>

Boolean(b) == <<"Boolean", b>>

\* An f64 with a short decimal expansion: (-1)^neg * m[1].m[2]m[3].. * 10^e,
\* m without leading or trailing zeros; zero is m = <<0>>, e = 0.
Double(neg, m, e) == <<"Double", [neg |-> neg, m |-> m, e |-> e]>>

\* RespMap(BTreeMap<String, RespFrame>): the <<key, value>> entries in the
\* order the BTreeMap keeps and iterates them, ascending by key
RespMap(es) == <<"Map", es>>

RespSet(fs) == <<"Set", fs>>

NoFrame == <<"None", <<>>>>

\* The byte order of the characters that occur in Map keys (String's Ord
\* compares bytes).
Code(c) == CASE c = "B" -> 66 [] c = "a" -> 97 [] c = "b" -> 98 [] OTHER -> 0

RECURSIVE LexLess(_, _)
\* a < b for Strings: bytewise lexicographic, a proper prefix first
LexLess(a, b) ==
  IF Len(b) = 0 THEN FALSE
  ELSE IF Len(a) = 0 THEN TRUE
  ELSE IF a[1] # b[1] THEN Code(a[1]) < Code(b[1])
  ELSE LexLess(Tail(a), Tail(b))

RECURSIVE btree_insert(_, _, _)
\* BTreeMap::insert: a present key's value is replaced, a new key goes to its
\* place in the key order
btree_insert(es, k, v) ==
  IF es = <<>> THEN <<<<k, v>>>>
  ELSE IF Head(es)[1] = k THEN <<<<k, v>>>> \o Tail(es)
  ELSE IF LexLess(k, Head(es)[1]) THEN <<<<k, v>>>> \o es
  ELSE <<Head(es)>> \o btree_insert(Tail(es), k, v)

\* map.insert(k, v) through DerefMut for RespMap
map_insert(es, k, v) == btree_insert(es, k, v)

----------------------------------------------------------------------------
(* encode.rs *)

RECURSIVE fmt_uint(_)
\* format!("{}", n) of a non-negative integer
fmt_uint(n) ==
  IF n < 10 THEN <<Digits[n + 1]>>
  ELSE fmt_uint(n \div 10) \o <<Digits[(n % 10) + 1]>>

\* format!("{}", n) of an i64
fmt_int(n) == IF n < 0 THEN <<"-">> \o fmt_uint(-n) ELSE fmt_uint(n)

encode_simple_string(s) == <<"+">> \o s \o CRLF

encode_simple_error(s) == <<"-">> \o s \o CRLF

encode_i64(n) ==
  LET sign == IF n < 0 THEN <<>> ELSE <<"+">>
  IN <<":">> \o sign \o fmt_int(n) \o CRLF

encode_bulk_string(s) == <<"$">> \o fmt_uint(Len(s)) \o CRLF \o s \o CRLF

encode_null_bulk_string == <<"$", "-", "1">> \o CRLF

encode_null == <<"_">> \o CRLF

encode_null_array == <<"*", "-", "1">> \o CRLF

encode_bool(b) == <<"#">> \o (IF b THEN <<"t">> ELSE <<"f">>) \o CRLF

DigitChars(m) == [i \in 1..Len(m) |-> Digits[m[i] + 1]]

Zeros(n) == [i \in 1..n |-> "0"]

IsZero(d) == d.m = <<0>>

\* self.abs() > 1e+8
AbsGt1e8(d) == ~IsZero(d) /\ (d.e > 8 \/ (d.e = 8 /\ d.m # <<1>>))

\* self.abs() < 1e-8
AbsLt1eM8(d) == IsZero(d) \/ d.e < -8

\* format!("{:+e}", d): sign, shortest digits, 'e', exponent
fmt_exp(d) ==
  (IF d.neg THEN <<"-">> ELSE <<"+">>)
    \o <<Digits[d.m[1] + 1]>>
    \o (IF Len(d.m) > 1 THEN <<".">> \o DigitChars(Tail(d.m)) ELSE <<>>)
    \o <<"e">> \o fmt_int(d.e)

\* format!("{}", d): '-' when negative, then the plain decimal expansion
fmt_display(d) ==
  (IF d.neg THEN <<"-">> ELSE <<>>)
    \o (IF d.e >= 0
        THEN LET int == IF Len(d.m) >= d.e + 1
                        THEN DigitChars(SubSeq(d.m, 1, d.e + 1))
                        ELSE DigitChars(d.m) \o Zeros(d.e + 1 - Len(d.m))
                 frac == IF Len(d.m) > d.e + 1
                         THEN DigitChars(SubSeq(d.m, d.e + 2, Len(d.m)))
                         ELSE <<>>
             IN int \o (IF frac = <<>> THEN <<>> ELSE <<".">> \o frac)
        ELSE <<"0", ".">> \o Zeros(-d.e - 1) \o DigitChars(d.m))

encode_f64(d) ==
  LET body == IF AbsGt1e8(d) \/ AbsLt1eM8(d)
              THEN fmt_exp(d)
              ELSE (IF d.neg /\ ~IsZero(d) THEN <<>> ELSE <<"+">>) \o fmt_display(d)
  IN <<",">> \o body \o CRLF

RECURSIVE encode(_)
RECURSIVE encode_items(_)
RECURSIVE encode_entries(_)
\* for item in self.0 { buf.extend_from_slice(&item.encode()) }
encode_items(fs) ==
  IF fs = <<>> THEN <<>> ELSE encode(Head(fs)) \o encode_items(Tail(fs))

\* for (key, value) in self.0: SimpleString::new(key).encode(), value.encode()
encode_entries(es) ==
  IF es = <<>> THEN <<>>
  ELSE encode_simple_string(Head(es)[1]) \o encode(Head(es)[2])
         \o encode_entries(Tail(es))

encode_array(fs) == <<"*">> \o fmt_uint(Len(fs)) \o CRLF \o encode_items(fs)

encode_set(fs) == <<"~">> \o fmt_uint(Len(fs)) \o CRLF \o encode_items(fs)

RECURSIVE Reverse(_)
Reverse(q) == IF q = <<>> THEN <<>> ELSE Reverse(Tail(q)) \o <<Head(q)>>

\* An encode of RespMap that walks the entries from the largest key down.
encode_map_descending(es) ==
  <<"%">> \o fmt_uint(Len(es)) \o CRLF \o encode_entries(Reverse(es))

encode_map(es) == <<"%">> \o fmt_uint(Len(es)) \o CRLF \o encode_entries(es)

\* enum_dispatch(RespEncode) for RespFrame
encode(fr) ==
  CASE fr[1] = "SimpleString" -> encode_simple_string(fr[2])
    [] fr[1] = "Error" -> encode_simple_error(fr[2])
    [] fr[1] = "Integer" -> encode_i64(fr[2])
    [] fr[1] = "BulkString" -> encode_bulk_string(fr[2])
    [] fr[1] = "NullBulkString" -> encode_null_bulk_string
    [] fr[1] = "Array" -> encode_array(fr[2])
    [] fr[1] = "Null" -> encode_null
    [] fr[1] = "NullArray" -> encode_null_array
    [] fr[1] = "Boolean" -> encode_bool(fr[2])
    [] fr[1] = "Double" -> encode_f64(fr[2])
    [] fr[1] = "Map" -> encode_map(fr[2])
    [] fr[1] = "Set" -> encode_set(fr[2])

----------------------------------------------------------------------------
(* The frame-length oracle: calc_total_length is mod.rs; the expect_length  *)
(* implementations are decode.rs, taken from section 4.2.                  *)

LinePrefixes == {"+", "-", ":", "#", ","}

AggregatePrefixes == {"*", "~", "%"}

\* SimpleString, SimpleError, Integer, Boolean, Double: offset of CRLF + 2
line_expect_length(b, prefix) ==
  LET e == extract_simple_frame_data(b, prefix)
  IN IF e.k # "Ok" THEN e ELSE Ok(e.v + CRLF_LEN)

\* Null: fixed length including CRLF, no header to parse
null_expect_length(b) == Ok(Len(encode_null))

\* BulkString: header-line length + declared payload length + trailing CRLF
bulk_expect_length(b) ==
  LET h == parse_length(b, <<"$">>)
  IN IF h.k # "Ok" THEN h ELSE Ok(h.v[1] + CRLF_LEN + h.v[2] + CRLF_LEN)

RECURSIVE expect_length(_)
RECURSIVE calc_total_length(_, _, _, _)
RECURSIVE calc_elements(_, _, _)
RECURSIVE calc_entries(_, _, _)
\* for _ in 0..len { let len = RespFrame::expect_length(data)?;
\*                   data = &data[len..]; total += len; }
calc_elements(data, n, total) ==
  IF n = 0 THEN Ok(total)
  ELSE LET l == expect_length(data)
       IN IF l.k # "Ok" THEN l
          ELSE IF l.v > Len(data) THEN Panic
          ELSE calc_elements(SliceFrom(data, l.v), n - 1, total + l.v)

\* the "%" arm: a SimpleString key, then a value, per entry
calc_entries(data, n, total) ==
  IF n = 0 THEN Ok(total)
  ELSE LET kl == line_expect_length(data, <<"+">>)
       IN IF kl.k # "Ok" THEN kl
          ELSE LET rest == SliceFrom(data, kl.v)
                   vl == expect_length(rest)
               IN IF vl.k # "Ok" THEN vl
                  ELSE IF vl.v > Len(rest) THEN Panic
                  ELSE calc_entries(SliceFrom(rest, vl.v), n - 1,
                                    total + kl.v + vl.v)

calc_total_length(b, end, len, prefix) ==
  LET total == end + CRLF_LEN
  IN IF total > Len(b) THEN Panic
     ELSE LET data == SliceFrom(b, total)
          IN CASE prefix \in {<<"*">>, <<"~">>} -> calc_elements(data, len, total)
               [] prefix = <<"%">> -> calc_entries(data, len, total)
               [] OTHER -> Ok(len + CRLF_LEN)

\* Array, Set, Map: the count header, then the walk of calc_total_length
aggregate_expect_length(b, prefix) ==
  LET h == parse_length(b, prefix)
  IN IF h.k # "Ok" THEN h ELSE calc_total_length(b, h.v[1], h.v[2], prefix)

\* RespFrame::expect_length: by the first byte of the buffer
expect_length(b) ==
  IF Len(b) = 0 THEN Err("NotComplete")
  ELSE IF b[1] \in LinePrefixes THEN line_expect_length(b, <<b[1]>>)
  ELSE IF b[1] = "_" THEN null_expect_length(b)
  ELSE IF b[1] = "$" THEN bulk_expect_length(b)
  ELSE IF b[1] \in AggregatePrefixes THEN aggregate_expect_length(b, <<b[1]>>)
  ELSE Err("InvalidFrameType")

----------------------------------------------------------------------------
(* decode.rs, taken from section 4.3: decode(buf) gives the Result and the  *)
(* buffer as the call leaves it.                                           *)

Out(r, b) == [r |-> r, b |-> b]

\* str::parse::<i64>: an optional sign, then one or more digits
parse_i64(s) ==
  LET signed == Len(s) >= 1 /\ s[1] \in {"+", "-"}
      d == IF signed THEN Tail(s) ELSE s
  IN IF ~AllDigits(d) THEN Err("ParseIntError")
     ELSE Ok(IF signed /\ s[1] = "-" THEN -digits_value(d) ELSE digits_value(d))

\* position of the first c in s, 0 when there is none
IndexOf(s, c) ==
  IF \E i \in 1..Len(s) : s[i] = c
  THEN CHOOSE i \in 1..Len(s) : s[i] = c /\ \A j \in 1..(i - 1) : s[j] # c
  ELSE 0

\* the f64 of a digit string ds whose first digit has weight 10^e
f64_of_digits(neg, ds, e) ==
  IF \A i \in 1..Len(ds) : ds[i] = "0" THEN [neg |-> neg, m |-> <<0>>, e |-> 0]
  ELSE LET first == CHOOSE i \in 1..Len(ds) :
                      ds[i] # "0" /\ \A j \in 1..(i - 1) : ds[j] = "0"
           last == CHOOSE i \in 1..Len(ds) :
                     ds[i] # "0" /\ \A j \in (i + 1)..Len(ds) : ds[j] = "0"
       IN [neg |-> neg,
           m |-> [i \in 1..(last - first + 1) |-> DigitVal(ds[first + i - 1])],
           e |-> e - (first - 1)]

\* str::parse::<f64>: sign, digits with an optional point, optional exponent
parse_f64(s) ==
  LET signed == Len(s) >= 1 /\ s[1] \in {"+", "-"}
      u == IF signed THEN Tail(s) ELSE s
      ei == IndexOf(u, "e")
      mant == IF ei = 0 THEN u ELSE SubSeq(u, 1, ei - 1)
      x == IF ei = 0 THEN Ok(0) ELSE parse_i64(SubSeq(u, ei + 1, Len(u)))
      pi == IndexOf(mant, ".")
      ip == IF pi = 0 THEN mant ELSE SubSeq(mant, 1, pi - 1)
      fp == IF pi = 0 THEN <<>> ELSE SubSeq(mant, pi + 1, Len(mant))
  IN IF ~AllDigits(ip \o fp) \/ x.k # "Ok" THEN Err("ParseFloatError")
     ELSE Ok(f64_of_digits(signed /\ s[1] = "-", ip \o fp, x.v + Len(ip) - 1))

decode_simple_string(b) ==
  LET e == extract_simple_frame_data(b, <<"+">>)
  IN IF e.k # "Ok" THEN Out(e, b)
     ELSE Out(Ok(SimpleString(Slice(b, 1, e.v))), SliceFrom(b, e.v + CRLF_LEN))

decode_simple_error(b) ==
  LET e == extract_simple_frame_data(b, <<"-">>)
  IN IF e.k # "Ok" THEN Out(e, b)
     ELSE Out(Ok(SimpleError(Slice(b, 1, e.v))), SliceFrom(b, e.v + CRLF_LEN))

decode_integer(b) ==
  LET e == extract_simple_frame_data(b, <<":">>)
  IN IF e.k # "Ok" THEN Out(e, b)
     ELSE LET n == parse_i64(Slice(b, 1, e.v))
          IN IF n.k # "Ok" THEN Out(n, b)
             ELSE Out(Ok(Integer(n.v)), SliceFrom(b, e.v + CRLF_LEN))

decode_boolean(b) ==
  LET e == extract_simple_frame_data(b, <<"#">>)
  IN IF e.k # "Ok" THEN Out(e, b)
     ELSE LET s == Slice(b, 1, e.v)
          IN IF s \notin {<<"t">>, <<"f">>} THEN Out(Err("InvalidFrame"), b)
             ELSE Out(Ok(Boolean(s = <<"t">>)), SliceFrom(b, e.v + CRLF_LEN))

decode_double(b) ==
  LET e == extract_simple_frame_data(b, <<",">>)
  IN IF e.k # "Ok" THEN Out(e, b)
     ELSE LET d == parse_f64(Slice(b, 1, e.v))
          IN IF d.k # "Ok" THEN Out(d, b)
             ELSE Out(Ok(<<"Double", d.v>>), SliceFrom(b, e.v + CRLF_LEN))

decode_null(b) ==
  IF Len(b) < Len(encode_null) THEN Out(Err("NotComplete"), b)
  ELSE IF ~StartsWith(b, encode_null) THEN Out(Err("InvalidFrameType"), b)
  ELSE Out(Ok(RespNull), SliceFrom(b, Len(encode_null)))

\* parse the length header; take exactly that many payload bytes and the CRLF
decode_bulk_string(b) ==
  LET h == parse_length(b, <<"$">>)
  IN IF h.k # "Ok" THEN Out(h, b)
     ELSE LET start == h.v[1] + CRLF_LEN
              len == h.v[2]
          IN IF Len(b) < start + len + CRLF_LEN THEN Out(Err("NotComplete"), b)
             ELSE Out(Ok(BulkString(Slice(b, start, start + len))),
                      SliceFrom(b, start + len + CRLF_LEN))

RECURSIVE decode(_)
RECURSIVE decode_elements(_, _, _)
RECURSIVE decode_entries(_, _, _)

\* decode exactly n nested frames in sequence order
decode_elements(b, n, acc) ==
  IF n = 0 THEN Out(Ok(acc), b)
  ELSE LET d == decode(b)
       IN IF d.r.k # "Ok" THEN d
          ELSE decode_elements(d.b, n - 1, Append(acc, d.r.v))

\* decode n (SimpleString key, value) pairs into the key-ordered map
decode_entries(b, n, f) ==
  IF n = 0 THEN Out(Ok(f), b)
  ELSE LET key == decode_simple_string(b)
       IN IF key.r.k # "Ok" THEN key
          ELSE LET val == decode(key.b)
               IN IF val.r.k # "Ok" THEN val
                  ELSE decode_entries(val.b, n - 1,
                                      map_insert(f, key.r.v[2], val.r.v))

\* Array, Set, Map: the count header and the oracle's span first, then the
\* header is dropped and the nested frames are decoded from the buffer
decode_aggregate(b, prefix) ==
  LET h == parse_length(b, prefix)
  IN IF h.k # "Ok" THEN Out(h, b)
     ELSE LET total == calc_total_length(b, h.v[1], h.v[2], prefix)
          IN IF total.k # "Ok" THEN Out(total, b)
             ELSE IF Len(b) < total.v THEN Out(Err("NotComplete"), b)
             ELSE LET body == SliceFrom(b, h.v[1] + CRLF_LEN)
                      d == IF prefix = <<"%">>
                           THEN decode_entries(body, h.v[2], <<>>)
                           ELSE decode_elements(body, h.v[2], <<>>)
                  IN IF d.r.k # "Ok" THEN d
                     ELSE Out(Ok(CASE prefix = <<"*">> -> RespArray(d.r.v)
                                   [] prefix = <<"~">> -> RespSet(d.r.v)
                                   [] prefix = <<"%">> -> RespMap(d.r.v)),
                              d.b)

\* RespFrame::decode: by the first byte of the buffer
decode(b) ==
  IF Len(b) = 0 THEN Out(Err("NotComplete"), b)
  ELSE CASE b[1] = "+" -> decode_simple_string(b)
         [] b[1] = "-" -> decode_simple_error(b)
         [] b[1] = ":" -> decode_integer(b)
         [] b[1] = "#" -> decode_boolean(b)
         [] b[1] = "," -> decode_double(b)
         [] b[1] = "_" -> decode_null(b)
         [] b[1] = "$" -> decode_bulk_string(b)
         [] b[1] \in AggregatePrefixes -> decode_aggregate(b, <<b[1]>>)
         [] OTHER -> Out(Err("InvalidFrameType"), b)

----------------------------------------------------------------------------
(* The inputs *)

\* bytes a peer may put on the connection (SpecOracle)
Bytes == {"+", "$", "-", "1", "\r", "\n"}

\* the prefixes extract_simple_frame_data is called with (SpecOracle)
CallPrefixes == {<<"+">>, <<"$">>}

\* the prefixes parse_length is called with (SpecOracle)
LengthPrefixes == {<<"$">>}

\* the prefixes of the frames that carry a length or count header
HeaderPrefixes == {"$", "*", "~", "%"}

Leaves ==
  { SimpleString(<<>>), SimpleString(<<"a">>), SimpleError(<<"e">>),
    Integer(0), Integer(-7), Integer(42),
    BulkString(<<>>), BulkString(<<"a">>), BulkString(CRLF),
    RespNullBulkString, RespNull, RespNullArray,
    Boolean(TRUE), Boolean(FALSE),
    Double(FALSE, <<1, 5>>, 0), Double(TRUE, <<1>>, 9), Double(FALSE, <<0>>, 0) }

\* what the aggregates of SpecCodec hold
Elems ==
  { Integer(42), BulkString(<<"a">>), RespNull, RespNullBulkString,
    RespArray(<<Integer(0)>>) }

ElemSeqs == UNION {[1..n -> Elems] : n \in 0..MaxElems}

Keys == {<<"a">>, <<"b">>, <<"a", "b">>, <<"B">>}

CodecKeys == {<<"a">>, <<"b">>}

ElemMaps ==
  {es \in UNION {[1..n -> CodecKeys \X Elems] : n \in 0..MaxElems} :
     \A i \in 1..(Len(es) - 1) : LexLess(es[i][1], es[i + 1][1])}

Frames ==
  Leaves \cup {RespArray(fs) : fs \in ElemSeqs} \cup {RespSet(fs) : fs \in ElemSeqs}
    \cup {RespMap(f) : f \in ElemMaps}

MapValues == {BulkString(<<"a">>), Integer(42), Double(TRUE, <<1, 5>>, 0)}

Mantissas == {<<1>>, <<1, 5>>, <<9>>, <<1, 2, 3>>}

DoubleFrames ==
  {Double(neg, m, e) : neg \in BOOLEAN, m \in Mantissas, e \in (-MaxExp)..MaxExp}
    \cup {Double(neg, <<0>>, 0) : neg \in BOOLEAN}

----------------------------------------------------------------------------
(* The operations *)

Start(f) ==
  /\ buf = <<>> /\ call = Idle /\ ret = NoRet /\ pre = <<>>
  /\ frame = f /\ wire = <<>> /\ sent = "no" /\ hist = <<>>

\* RespMap: map.insert(k, v)
MapInsert(k, v) ==
  /\ sent = "no" /\ frame[1] = "Map" /\ Len(hist) < MaxInserts
  /\ frame' = RespMap(map_insert(frame[2], k, v))
  /\ hist' = Append(hist, <<k, v>>)
  /\ UNCHANGED <<buf, call, ret, pre, wire, sent>>

\* frame.encode()
Encode ==
  /\ sent = "no" /\ frame # NoFrame
  /\ wire' = encode(frame)
  /\ sent' = "clean"
  /\ UNCHANGED <<buf, call, ret, pre, frame, hist>>

\* the peer sends one byte of the frame wrong
Garble(i) ==
  /\ sent = "clean" /\ buf = <<>> /\ i \in 1..Len(wire)
  /\ wire' = [wire EXCEPT ![i] = "x"]
  /\ sent' = "garbled"
  /\ UNCHANGED <<buf, call, ret, pre, frame, hist>>

\* the peer goes on to send the first byte of whatever follows the frame
Trail(b) ==
  /\ sent = "clean" /\ wire = <<>> /\ buf = encode(frame)
  /\ wire' = <<b>>
  /\ sent' = "trailed"
  /\ UNCHANGED <<buf, call, ret, pre, frame, hist>>

\* the transport hands the buffer the next byte of the wire
Deliver ==
  /\ wire # <<>>
  /\ buf' = Append(buf, Head(wire)) /\ wire' = Tail(wire)
  /\ pre' = Append(buf, Head(wire))
  /\ call' = Idle /\ ret' = NoRet
  /\ UNCHANGED <<frame, sent, hist>>

\* the transport hands the buffer an arbitrary byte
Recv(b) ==
  /\ Len(buf) < MaxLen
  /\ buf' = Append(buf, b) /\ pre' = Append(buf, b)
  /\ call' = Idle /\ ret' = NoRet
  /\ UNCHANGED <<frame, wire, sent, hist>>

CallExtract(p) ==
  /\ call' = [op |-> "extract_simple_frame_data", prefix |-> p]
  /\ ret' = extract_simple_frame_data(buf, p)
  /\ pre' = buf
  /\ UNCHANGED <<buf, frame, wire, sent, hist>>

CallParseLength(p) ==
  /\ call' = [op |-> "parse_length", prefix |-> p]
  /\ ret' = parse_length(buf, p)
  /\ pre' = buf
  /\ UNCHANGED <<buf, frame, wire, sent, hist>>

CallExpectLength ==
  /\ call' = [op |-> "expect_length", prefix |-> <<>>]
  /\ ret' = expect_length(buf)
  /\ pre' = buf
  /\ UNCHANGED <<buf, frame, wire, sent, hist>>

CallDecode ==
  /\ call' = [op |-> "decode", prefix |-> <<>>]
  /\ ret' = decode(buf).r
  /\ buf' = decode(buf).b
  /\ pre' = buf
  /\ UNCHANGED <<frame, wire, sent, hist>>

----------------------------------------------------------------------------
(* The specifications *)

\* arbitrary bytes arrive; the header routines, the oracle and the decoder run
InitOracle == Start(NoFrame)

NextOracle ==
  \/ \E b \in Bytes : Recv(b)
  \/ \E p \in CallPrefixes : CallExtract(p)
  \/ \E p \in LengthPrefixes : CallParseLength(p)
  \/ CallExpectLength
  \/ CallDecode

SpecOracle == InitOracle /\ [][NextOracle]_vars

\* a frame is encoded, sent (whole, in part, or garbled) and decoded
Init == \E f \in Frames : Start(f)

Next ==
  \/ Encode
  \/ \E i \in 1..Len(wire) : Garble(i)
  \/ \E b \in {":", "\r"} : Trail(b)
  \/ Deliver
  \/ \E c \in HeaderPrefixes : StartsWith(buf, <<c>>) /\ CallParseLength(<<c>>)
  \/ CallExpectLength
  \/ CallDecode

Spec == Init /\ [][Next]_vars

\* a RespMap is filled and encoded
InitMap == Start(RespMap(<<>>))

NextMap ==
  \/ \E k \in Keys, v \in MapValues : MapInsert(k, v)
  \/ Encode

SpecMap == InitMap /\ [][NextMap]_vars

\* a Double is encoded
InitDouble == \E f \in DoubleFrames : Start(f)

NextDouble == Encode

SpecDouble == InitDouble /\ [][NextDouble]_vars

----------------------------------------------------------------------------
(* Properties *)

IsCall(op) == call.op = op

\* the bytes of the frame that have reached the buffer, nothing consumed yet
PartOfFrame(b) ==
  /\ sent = "clean"
  /\ Len(b) <= Len(encode(frame))
  /\ b = SubSeq(encode(frame), 1, Len(b))

NullSentinels == {encode_null_bulk_string, encode_null_array}

RECURSIVE HasNullSentinel(_)
\* whether a NullBulkString or NullArray occurs in the frame
HasNullSentinel(fr) ==
  CASE fr[1] \in {"NullBulkString", "NullArray"} -> TRUE
    [] fr[1] \in {"Array", "Set"} ->
         \E i \in 1..Len(fr[2]) : HasNullSentinel(fr[2][i])
    [] fr[1] = "Map" -> \E i \in 1..Len(fr[2]) : HasNullSentinel(fr[2][i][2])
    [] OTHER -> FALSE

RoundTripWithoutNullSentinel ==
  (IsCall("decode") /\ sent \in {"clean", "trailed"}
     /\ StartsWith(pre, encode(frame)) /\ ~HasNullSentinel(frame))
  => /\ ret.k = "Ok"
     /\ ret.v = frame
     /\ buf = SliceFrom(pre, Len(encode(frame)))

C3_LengthWithinBuffer ==
  IsCall("expect_length")
  => /\ ret.k # "Panic"
     /\ ret.k = "Ok" => ret.v <= Len(pre)

\* offset just past the first CRLF of b (0 when there is none)
HeaderLineLen(b) ==
  IF \E i \in 1..(Len(b) - 1) : b[i] = "\r" /\ b[i + 1] = "\n"
  THEN 1 + CHOOSE i \in 1..(Len(b) - 1) :
             /\ b[i] = "\r" /\ b[i + 1] = "\n"
             /\ \A j \in 1..(i - 1) : ~(b[j] = "\r" /\ b[j + 1] = "\n")
  ELSE 0

\* C4: for an Array or Set whose header line has arrived, the length walk
\* returns the size of the whole frame when all its nested frames are
\* present, and NotComplete when one of them is missing or truncated.
C4_AggregateWalk ==
  (IsCall("expect_length") /\ frame[1] \in {"Array", "Set"} /\ PartOfFrame(pre)
     /\ Len(pre) >= HeaderLineLen(encode(frame)))
  => IF pre = encode(frame)
     THEN ret.k = "Ok" /\ ret.v = Len(pre)
     ELSE ret.k = "NotComplete"

\* the keys inserted so far
KeysOf(h) == {h[i][1] : i \in 1..Len(h)}

\* the value of the last insertion of key k
LastValue(h, k) ==
  h[CHOOSE i \in 1..Len(h) : h[i][1] = k /\ \A j \in (i + 1)..Len(h) : h[j][1] # k][2]

RECURSIVE AscendingPairs(_, _)
\* one SimpleString key and last-inserted value per key of ks, smallest first
AscendingPairs(h, ks) ==
  IF ks = {} THEN <<>>
  ELSE LET k == CHOOSE x \in ks : \A y \in ks : y = x \/ LexLess(x, y)
       IN <<"+">> \o k \o CRLF \o encode(LastValue(h, k))
            \o AscendingPairs(h, ks \ {k})

\* C5: the encoding of a Map is %<number of distinct keys>, then one pair per
\* distinct key in strictly ascending key order, the value being the last
\* one inserted for the key, whatever the order of the insertions.
C5_MapKeyOrder ==
  (sent = "clean" /\ frame[1] = "Map")
  => wire = <<"%">> \o fmt_uint(Cardinality(KeysOf(hist))) \o CRLF
              \o AscendingPairs(hist, KeysOf(hist))

\* C5's case: three insertions, a key repeated, keys not inserted in order
C5_Witness ==
  /\ sent = "clean" /\ frame[1] = "Map" /\ Len(hist) = 3
  /\ hist[1][1] = hist[3][1] /\ hist[1][2] # hist[3][2]
  /\ LexLess(hist[2][1], hist[1][1])

\* C6: a buffer that starts with $-1 CRLF or *-1 CRLF parses to the -1
\* sentinel and measures 5 bytes, also as the element of an Array.
C6_NullSentinelLength ==
  /\ (IsCall("parse_length") /\ \E n \in NullSentinels : StartsWith(pre, n)
        /\ StartsWith(pre, call.prefix))
     => ret.k = "Ok"
  /\ (IsCall("expect_length") /\ \E n \in NullSentinels : StartsWith(pre, n))
     => (ret.k = "Ok" /\ ret.v = 5)
  /\ (IsCall("expect_length") /\ sent = "clean" /\ pre = encode(frame)
        /\ frame \in {RespArray(<<RespNullBulkString>>), RespSet(<<RespNullBulkString>>)})
     => (ret.k = "Ok" /\ ret.v = Len(pre))

IsHeaderCall ==
  IsCall("extract_simple_frame_data") \/ IsCall("parse_length")

\* C7 as stated: a non-empty buffer whose first byte is not the expected
\* prefix gets InvalidFrameType from the header routines, whatever its
\* length.
C7_PrefixMismatchAnyLength ==
  (IsHeaderCall /\ Len(pre) >= 1 /\ ~StartsWith(pre, call.prefix))
  => ret.k = "InvalidFrameType"

\* C7 amended: a buffer of at least 3 bytes whose first byte is not the
\* expected prefix gets InvalidFrameType from the header routines; a buffer
\* of fewer than 3 bytes gets NotComplete whatever its first byte.
C7_PrefixMismatch ==
  IsHeaderCall
  => /\ (Len(pre) >= 3 /\ ~StartsWith(pre, call.prefix))
        => ret.k = "InvalidFrameType"
     /\ Len(pre) < 3 => ret.k = "NotComplete"

\* C7's case: a wrong first byte with a whole line behind it
C7_Witness ==
  /\ IsCall("parse_length") /\ Len(pre) >= 3 /\ ~StartsWith(pre, call.prefix)
  /\ HeaderLineLen(pre) > 0
  /\ ret.k = "InvalidFrameType"

\* the text between the prefix and the first CRLF of b
HeaderText(b) == SubSeq(b, 2, HeaderLineLen(b) - 2)

\* not an optional sign followed by one or more digits
NotDecimal(s) ==
  ~AllDigits(IF Len(s) >= 1 /\ s[1] \in {"+", "-"} THEN Tail(s) ELSE s)

\* C8: a header line with the right prefix and a CRLF whose text is not a
\* decimal count makes parse_length return InvalidFrameLength.
C8_MalformedLength ==
  (IsCall("parse_length") /\ Len(pre) >= 3 /\ StartsWith(pre, call.prefix)
     /\ HeaderLineLen(pre) > 0 /\ NotDecimal(HeaderText(pre)))
  => ret.k = "InvalidFrameLength"

\* magnitude > 1e8, from the decimal digits and exponent
Above1e8(d) == d.m # <<0>> /\ (d.e > 8 \/ (d.e = 8 /\ (Len(d.m) > 1 \/ d.m[1] > 1)))

\* 0 < magnitude < 1e-8
Below1eM8(d) == d.m # <<0>> /\ d.e < -8

\* C9: a Double is encoded in scientific notation exactly when it is nonzero
\* and its magnitude is > 1e8 or < 1e-8, and with exactly one leading sign.
C9_DoubleNotation ==
  (sent = "clean" /\ frame[1] = "Double")
  => /\ (\E i \in 1..Len(wire) : wire[i] = "e")
          <=> (Above1e8(frame[2]) \/ Below1eM8(frame[2]))
     /\ wire[2] \in {"+", "-"} /\ wire[3] \notin {"+", "-"}

\* the offsets i of b with CR at i and LF at i + 1, both inside b
CrlfOffsets(b) == {i \in 0..(Len(b) - 2) : b[i + 1] = "\r" /\ b[i + 2] = "\n"}

\* C10: on a buffer of at least 3 bytes that starts with the expected prefix,
\* extract_simple_frame_data returns the smallest offset of a CR LF pair that
\* lies inside the buffer, and NotComplete when there is none.
C10_LineTerminator ==
  (IsCall("extract_simple_frame_data") /\ Len(pre) >= 3
     /\ StartsWith(pre, call.prefix))
  => IF CrlfOffsets(pre) = {}
     THEN ret.k = "NotComplete"
     ELSE /\ ret.k = "Ok"
          /\ ret.v \in CrlfOffsets(pre)
          /\ \A i \in CrlfOffsets(pre) : ret.v <= i
          /\ ret.v + 2 <= Len(pre)

\* C10's case: the buffer ends with a CR whose LF has not arrived
C10_Witness ==
  /\ IsCall("extract_simple_frame_data") /\ Len(pre) >= 3
  /\ StartsWith(pre, call.prefix)
  /\ pre[Len(pre)] = "\r"
  /\ ret.k = "NotComplete"

====
